---- MODULE Spec2Model ----
(***************************************************************************)
(* Model of the messaging service: contact normalisation, participant key, *)
(* conversation find-or-create, the sendMessage ingestion pipeline over    *)
(* the conversations and messages tables, and the calls that list, read    *)
(* and delete conversations.                                               *)
(*                                                                         *)
(* Strings are sequences of one-character strings, so that trimming,       *)
(* lower-casing, splitting and sorting are computed character by           *)
(* character as the code computes them.                                    *)
(***************************************************************************)
EXTENDS Integers, Sequences, FiniteSets, TLC

(***************************************************************************)
(* Characters.  Ascii lists the characters used, in ASCII order, so that   *)
(* Code(c) orders characters as JavaScript's default sort orders them.     *)
(***************************************************************************)
Ascii ==
  << " ", "(", ")", "+", "-", ".",
     "0", "1", "2", "3", "4", "5", "6", "7", "8", "9",
     "@",
     "A", "B", "C", "D", "E", "F", "G", "H", "I", "J", "K", "L", "M",
     "N", "O", "P", "Q", "R", "S", "T", "U", "V", "W", "X", "Y", "Z",
     "a", "b", "c", "d", "e", "f", "g", "h", "i", "j", "k", "l", "m",
     "n", "o", "p", "q", "r", "s", "t", "u", "v", "w", "x", "y", "z" >>

Code(c) == CHOOSE i \in 1..Len(Ascii) : Ascii[i] = c

Digits == {"0", "1", "2", "3", "4", "5", "6", "7", "8", "9"}

UpperCase == {Ascii[i] : i \in 18..43}

LowerCase == {Ascii[i] : i \in 44..69}

IsDigit(c) == c \in Digits

\* String.prototype.toLowerCase, one character
LowerChar(c) == IF c \in UpperCase THEN Ascii[Code(c) + 26] ELSE c

\* String.prototype.toLowerCase
ToLowerCase(s) == [i \in 1..Len(s) |-> LowerChar(s[i])]

RECURSIVE TrimStart(_)
TrimStart(s) ==
  IF s /= <<>> /\ Head(s) = " " THEN TrimStart(Tail(s)) ELSE s

RECURSIVE TrimEnd(_)
TrimEnd(s) ==
  IF s /= <<>> /\ s[Len(s)] = " " THEN TrimEnd(SubSeq(s, 1, Len(s) - 1)) ELSE s

\* String.prototype.trim
Trim(s) == TrimEnd(TrimStart(s))

\* String.prototype.includes, for one character
Includes(s, c) == \E i \in 1..Len(s) : s[i] = c

\* String.prototype.indexOf for one character, 1-based; 0 when absent
IndexOf(s, c) ==
  IF Includes(s, c)
    THEN CHOOSE i \in 1..Len(s) : s[i] = c /\ \A j \in 1..(i - 1) : s[j] /= c
    ELSE 0

\* A comparison that looks at the first characters only
StrLessFirstChar(a, b) ==
  IF b = <<>> THEN FALSE
  ELSE IF a = <<>> THEN TRUE
  ELSE Code(Head(a)) < Code(Head(b))

\* Lexicographic order on strings by character code (Array.prototype.sort default)
RECURSIVE StrLess(_, _)
StrLess(a, b) ==
  IF b = <<>> THEN FALSE
  ELSE IF a = <<>> THEN TRUE
  ELSE IF Head(a) = Head(b) THEN StrLess(Tail(a), Tail(b))
  ELSE Code(Head(a)) < Code(Head(b))

(***************************************************************************)
(* Phone numbers.  ParsePhone models parsePhoneNumberFromString(text,'US') *)
(* for North American numbers: the digits of the text, a leading '+'       *)
(* introducing the calling code 1, a national prefix 1 dropped from an     *)
(* eleven digit national input.  NotParsed stands for undefined.           *)
(***************************************************************************)
NotParsed == [cc |-> <<>>, national |-> <<>>]

PhoneChars == Digits \cup {"+", "(", ")", "-", ".", " "}

DigitsOf(s) == SelectSeq(s, IsDigit)

ParsePhone(text) ==
  LET d == DigitsOf(text) IN
  IF \E i \in 1..Len(text) : text[i] \notin PhoneChars THEN NotParsed
  ELSE IF Len(d) < 2 THEN NotParsed
  ELSE IF Head(text) = "+"
    THEN IF Head(d) = "1" THEN [cc |-> <<"1">>, national |-> Tail(d)] ELSE NotParsed
  ELSE IF Len(d) = 11 /\ Head(d) = "1" THEN [cc |-> <<"1">>, national |-> Tail(d)]
  ELSE [cc |-> <<"1">>, national |-> d]

\* PhoneNumber.isValid for the NANP pattern [2-9]XX[2-9]XXXXXX
IsValidPhone(pn) ==
  /\ pn /= NotParsed
  /\ Len(pn.national) = 10
  /\ pn.national[1] \notin {"0", "1"}
  /\ pn.national[4] \notin {"0", "1"}

\* PhoneNumber.format('E.164')
FormatE164(pn) == <<"+">> \o pn.cc \o pn.national

\* The value standing for a thrown Error in the normaliser
Invalid == <<"!">>

normalizePhoneNumber(phone) ==
  LET first == ParsePhone(phone)
      withCountryCode ==
        IF phone /= <<>> /\ Head(phone) = "+" THEN phone
        ELSE <<"+", "1">> \o DigitsOf(phone)
      phoneNumber ==
        IF ~IsValidPhone(first) THEN ParsePhone(withCountryCode) ELSE first
  IN IF ~IsValidPhone(phoneNumber) THEN Invalid ELSE FormatE164(phoneNumber)

(***************************************************************************)
(* Email addresses.  IsEmail models validator.isEmail on a lower-cased     *)
(* address: one '@', a dot-atom local part, a domain of at least two       *)
(* labels whose last label is alphabetic and at least two characters.      *)
(***************************************************************************)
LocalChars == LowerCase \cup Digits \cup {".", "+", "-"}

DomainChars == LowerCase \cup Digits \cup {".", "-"}

NoEmptyLabel(s) ==
  /\ s /= <<>>
  /\ Head(s) /= "."
  /\ s[Len(s)] /= "."
  /\ \A i \in 1..(Len(s) - 1) : ~(s[i] = "." /\ s[i + 1] = ".")

\* The characters after the last '.' of s
RECURSIVE LastLabel(_)
LastLabel(s) ==
  IF Includes(s, ".") THEN LastLabel(SubSeq(s, IndexOf(s, ".") + 1, Len(s))) ELSE s

IsEmail(s) ==
  LET at == IndexOf(s, "@")
      local == SubSeq(s, 1, at - 1)
      domain == SubSeq(s, at + 1, Len(s))
  IN /\ at > 0
     /\ ~Includes(domain, "@")
     /\ NoEmptyLabel(local)
     /\ \A i \in 1..Len(local) : local[i] \in LocalChars
     /\ NoEmptyLabel(domain)
     /\ \A i \in 1..Len(domain) : domain[i] \in DomainChars
     /\ Includes(domain, ".")
     /\ Len(LastLabel(domain)) >= 2
     /\ \A i \in 1..Len(LastLabel(domain)) : LastLabel(domain)[i] \in LowerCase

GmailCom == <<"g", "m", "a", "i", "l", ".", "c", "o", "m">>

GooglemailCom == <<"g", "o", "o", "g", "l", "e", "m", "a", "i", "l", ".", "c", "o", "m">>

NotDot(c) == c /= "."

\* normalizeEmail stripping dots and plus tags whatever the domain
normalizeEmailAnyDomain(email) ==
  LET trimmed == ToLowerCase(Trim(email))
      at == IndexOf(trimmed, "@")
      localPart == SubSeq(trimmed, 1, at - 1)
      domain == SubSeq(trimmed, at + 1, Len(trimmed))
      noDots == SelectSeq(localPart, NotDot)
      plusIndex == IndexOf(noDots, "+")
      cleanedLocal ==
        IF plusIndex /= 0 THEN SubSeq(noDots, 1, plusIndex - 1) ELSE noDots
  IN IF ~IsEmail(trimmed) THEN Invalid
     ELSE IF domain = GooglemailCom THEN cleanedLocal \o <<"@">> \o GmailCom
     ELSE cleanedLocal \o <<"@">> \o domain

normalizeEmail(email) ==
  LET trimmed == ToLowerCase(Trim(email))
      at == IndexOf(trimmed, "@")
      localPart == SubSeq(trimmed, 1, at - 1)
      domain == SubSeq(trimmed, at + 1, Len(trimmed))
      noDots == SelectSeq(localPart, NotDot)
      plusIndex == IndexOf(noDots, "+")
      cleanedLocal ==
        IF plusIndex /= 0 THEN SubSeq(noDots, 1, plusIndex - 1) ELSE noDots
  IN IF ~IsEmail(trimmed) THEN Invalid
     ELSE IF domain = GmailCom \/ domain = GooglemailCom
       THEN cleanedLocal \o <<"@">> \o GmailCom
     ELSE trimmed

\* normalizeContact reading every contact as the phone number of its digits
normalizeContactDigits(contact) == normalizePhoneNumber(DigitsOf(Trim(contact)))

normalizeContact(contact) ==
  LET trimmed == Trim(contact) IN
  IF Includes(trimmed, "@") THEN normalizeEmail(trimmed)
  ELSE normalizePhoneNumber(trimmed)

\* createParticipantKey with the pair in descending order
createParticipantKeyDescending(participant1, participant2) ==
  LET n1 == normalizeContact(participant1)
      n2 == normalizeContact(participant2)
  IN IF n1 = Invalid \/ n2 = Invalid THEN <<Invalid>>
     ELSE IF StrLess(n1, n2) THEN <<n2, n1>> ELSE <<n1, n2>>

\* createParticipantKey without the sort
createParticipantKeyUnsorted(participant1, participant2) ==
  LET n1 == normalizeContact(participant1)
      n2 == normalizeContact(participant2)
  IN IF n1 = Invalid \/ n2 = Invalid THEN <<Invalid>> ELSE <<n1, n2>>

\* JSON.stringify of the sorted pair: the pair itself, in ascending order.
\* Invalid when either side fails to normalise (the Error propagates).
createParticipantKey(participant1, participant2) ==
  LET n1 == normalizeContact(participant1)
      n2 == normalizeContact(participant2)
  IN IF n1 = Invalid \/ n2 = Invalid THEN <<Invalid>>
     ELSE IF StrLess(n2, n1) THEN <<n2, n1>> ELSE <<n1, n2>>


(***************************************************************************)
(* Inputs.  Raw contact strings as callers write them.                     *)
(***************************************************************************)
PhoneA == <<"+", "1", "2", "0", "2", "5", "5", "5", "1", "2", "3", "4">>

PhoneAFormatted == <<"(", "2", "0", "2", ")", " ", "5", "5", "5", "-", "1", "2", "3", "4">>

PhoneB == <<"+", "1", "-", "2", "0", "2", "-", "5", "5", "5", "-", "5", "6", "7", "8">>

PhoneBPlain == <<"2", "0", "2", "5", "5", "5", "5", "6", "7", "8">>

PhoneShort == <<"5", "5", "5", "1", "2", "3", "4">>

NotAPhone == <<"n", "o", "p", "e">>

EmailGmailAlias == <<"A", "l", "+", "x", "@", "g", "m", "a", "i", "l", ".", "c", "o", "m">>

EmailGmailDots == <<"a", ".", "l", "@", "g", "o", "o", "g", "l", "e", "m", "a", "i", "l", ".", "c", "o", "m">>

EmailBob == <<"b", "o", "b", "@", "e", "x", ".", "i", "o">>

EmailBobUpper == <<" ", "B", "O", "B", "@", "E", "x", ".", "i", "o">>

EmailPlusOnly == <<"+", "x", "@", "g", "m", "a", "i", "l", ".", "c", "o", "m">>

EmailNoDomain == <<"b", "o", "b", "@", "e", "x">>

EmailGmailSecondAlias == <<"a", "l", "+", "y", "@", "g", "m", "a", "i", "l", ".", "c", "o", "m">>

EmailGmailUpper == <<"A", ".", "L", "@", "G", "M", "A", "I", "L", ".", "c", "o", "m">>

EmailTagged == <<"a", ".", "l", "+", "x", "@", "e", "x", ".", "i", "o">>

\* Addresses whose local parts are the digits of PhoneA and of PhoneB
EmailDigitsA == <<"2", "0", "2", "5", "5", "5", "1", "2", "3", "4", "@", "e", "x", ".", "i", "o">>

EmailDigitsB == <<"2", "0", "2", "5", "5", "5", "5", "6", "7", "8", "@", "e", "x", ".", "i", "o">>

BodyHi == <<"h", "i">>

BodyEmpty == <<>>

BodyBlank == <<" ">>

\* attachments: null | string[]   (null is the one-element marker below)
NullAttachments == <<"null">>

NoAttachments == <<>>

OneAttachment == <<"https://example.com/image.jpg">>

\* providerMessageId: null | string
Null == "null"

ProviderTypes == {"sms", "email"}

MessageTypes == {"sms", "mms", "email"}

MessageDirections == {"inbound", "outbound"}

MessageStatuses == {"pending", "sent", "delivered", "failed"}

(***************************************************************************)
(* State.                                                                  *)
(***************************************************************************)
VARIABLES
  conversations,        \* rows of table conversations
  messages,             \* rows of table messages
  nextConversationId,   \* gen_random_uuid() for conversations: a fresh id
  nextMessageId,        \* gen_random_uuid() for messages: a fresh id
  pc,                   \* per request: position inside sendMessage
  payload,              \* per request: the SendMessagePayload
  conversation,         \* per request: id of the conversation resolved by findOrCreate
  result,               \* per request: what sendMessage returned or threw
  response,             \* what the latest call that lists, reads or deletes returned or threw
  contacts,             \* the two contact strings handed to the normaliser
  normalized            \* what the normaliser function applied last returned for them

vars ==
  << conversations, messages, nextConversationId, nextMessageId,
     pc, payload, conversation, result, response, contacts, normalized >>

\* The arguments and the result of the functions of utils/normalizer
normalizerVars == <<contacts, normalized>>

\* Number of calls to sendMessage in a behaviour
MaxCalls == 3

\* The HTTP requests, numbered in order of arrival; each is one call to
\* sendMessage on its own MessageService instance over the shared tables
Requests == 1..MaxCalls

(***************************************************************************)
(* Validation part of sendMessage.                                         *)
(***************************************************************************)
FieldError(field, code) == [field |-> field, code |-> code]

ErrorIf(cond, field, code) == IF cond THEN <<FieldError(field, code)>> ELSE <<>>

\* ValidationErrors without the two provider / message type checks
ValidationErrorsNoTypeCheck(pl) ==
  LET normalizedFrom == normalizeContact(pl.from)
      normalizedTo == normalizeContact(pl.to)
  IN ErrorIf(normalizedFrom = Invalid, "from", "INVALID_CONTACT_FORMAT")
     \o ErrorIf(normalizedTo = Invalid, "to", "INVALID_CONTACT_FORMAT")
     \o ErrorIf(normalizedFrom /= Invalid /\ normalizedTo /= Invalid
                  /\ normalizedFrom = normalizedTo,
                "participants", "PARTICIPANTS_IDENTICAL")
     \o ErrorIf(Len(Trim(pl.body)) = 0, "body", "EMPTY_BODY")
     \o ErrorIf(pl.messageType = "mms"
                  /\ (pl.attachments = NullAttachments \/ Len(pl.attachments) = 0),
                "attachments", "MMS_REQUIRES_ATTACHMENTS")

\* ValidationErrors comparing the raw from and to instead of the normalised ones
ValidationErrorsRawCompare(pl) ==
  LET normalizedFrom == normalizeContact(pl.from)
      normalizedTo == normalizeContact(pl.to)
  IN ErrorIf(normalizedFrom = Invalid, "from", "INVALID_CONTACT_FORMAT")
     \o ErrorIf(normalizedTo = Invalid, "to", "INVALID_CONTACT_FORMAT")
     \o ErrorIf(normalizedFrom /= Invalid /\ normalizedTo /= Invalid /\ pl.from = pl.to,
                "participants", "PARTICIPANTS_IDENTICAL")
     \o ErrorIf(Len(Trim(pl.body)) = 0, "body", "EMPTY_BODY")
     \o ErrorIf(pl.messageType = "mms"
                  /\ (pl.attachments = NullAttachments \/ Len(pl.attachments) = 0),
                "attachments", "MMS_REQUIRES_ATTACHMENTS")
     \o ErrorIf(pl.providerType = "sms" /\ pl.messageType = "email",
                "messageType", "PROVIDER_MESSAGE_TYPE_MISMATCH")
     \o ErrorIf(pl.providerType = "email" /\ pl.messageType \in {"sms", "mms"},
                "messageType", "PROVIDER_MESSAGE_TYPE_MISMATCH")

\* The FieldError list sendMessage has collected when it reaches `errors.length > 0`
ValidationErrors(pl) ==
  LET normalizedFrom == normalizeContact(pl.from)
      normalizedTo == normalizeContact(pl.to)
  IN ErrorIf(normalizedFrom = Invalid, "from", "INVALID_CONTACT_FORMAT")
     \o ErrorIf(normalizedTo = Invalid, "to", "INVALID_CONTACT_FORMAT")
     \o ErrorIf(normalizedFrom /= Invalid /\ normalizedTo /= Invalid
                  /\ normalizedFrom = normalizedTo,
                "participants", "PARTICIPANTS_IDENTICAL")
     \o ErrorIf(Len(Trim(pl.body)) = 0, "body", "EMPTY_BODY")
     \o ErrorIf(pl.messageType = "mms"
                  /\ (pl.attachments = NullAttachments \/ Len(pl.attachments) = 0),
                "attachments", "MMS_REQUIRES_ATTACHMENTS")
     \o ErrorIf(pl.providerType = "sms" /\ pl.messageType = "email",
                "messageType", "PROVIDER_MESSAGE_TYPE_MISMATCH")
     \o ErrorIf(pl.providerType = "email" /\ pl.messageType \in {"sms", "mms"},
                "messageType", "PROVIDER_MESSAGE_TYPE_MISMATCH")

\* participantsKey of a validated payload: createParticipantKey re-normalises
\* the already normalised contacts
ParticipantsKey(pl) ==
  createParticipantKey(normalizeContact(pl.from), normalizeContact(pl.to))

(***************************************************************************)
(* Results of a call.                                                      *)
(***************************************************************************)
NoMessage == [id |-> 0]

\* No call made yet
NoPayload ==
  [ providerType |-> "sms", providerMessageId |-> Null, messageType |-> "sms",
    direction |-> "outbound", from |-> <<>>, to |-> <<>>, body |-> <<>>,
    attachments |-> NullAttachments, timestamp |-> 0 ]

NoResult == [kind |-> "none", fields |-> <<>>, message |-> NoMessage]

\* AppError.validation(errors): ValidationError, code VALIDATION_ERROR, status 400
ValidationError(fields) ==
  [kind |-> "validation", fields |-> fields, message |-> NoMessage]

\* AppError.internal('Failed to send message', {cause}): code INTERNAL_ERROR, status 500
InternalError == [kind |-> "internal", fields |-> <<>>, message |-> NoMessage]

\* An Error that is not an AppError, thrown out of sendMessage
RawError == [kind |-> "error", fields |-> <<>>, message |-> NoMessage]

\* JSON.stringify of a list of strings: the bracketed text
JsonStringify(list) == <<"[">> \o list \o <<"]">>

\* The attachments column: params.attachments ? JSON.stringify(...) : null
SerializeAttachments(attachments) ==
  IF attachments = NullAttachments THEN NullAttachments ELSE JsonStringify(attachments)

\* safeJsonParse(row.attachments, null)
SafeJsonParseAttachments(stored) ==
  IF stored = NullAttachments THEN NullAttachments
  ELSE SubSeq(stored, 2, Len(stored) - 1)

\* toMessageResponse(row)
toMessageResponse(row) ==
  [ id |-> row.id,
    conversationId |-> row.conversation_id,
    providerType |-> row.provider_type,
    messageType |-> row.message_type,
    direction |-> row.direction,
    from |-> row.from,
    to |-> row.to,
    body |-> row.body,
    attachments |-> SafeJsonParseAttachments(row.attachments),
    status |-> row.status,
    timestamp |-> row.timestamp ]

Ok(row) == [kind |-> "ok", fields |-> <<>>, message |-> toMessageResponse(row)]

(***************************************************************************)
(* Storage.                                                                *)
(***************************************************************************)
ConversationIds == {c.id : c \in conversations}

\* The messages table without its unique constraint
NoUniqueProviderId(providerType, providerMessageId) == FALSE

\* uq_messages_provider_type_id: a NULL provider_message_id never conflicts
ViolatesUniqueProviderId(providerType, providerMessageId) ==
  /\ providerMessageId /= Null
  /\ \E m \in messages :
       /\ m.provider_type = providerType
       /\ m.provider_message_id = providerMessageId

\* The messages table without its foreign key
NoForeignKey(conversationId) == FALSE

\* messages.conversation_id references conversations.id
ViolatesForeignKey(conversationId) == conversationId \notin ConversationIds

\* The column default instead of the derived status
InitialStatusDefault(direction) == "pending"

\* status derived from the direction
InitialStatus(direction) == IF direction = "outbound" THEN "pending" ELSE "delivered"

\* The row MessageRepository.create inserts for createParams
MessageRow(id, conversationId, pl) ==
  [ id |-> id,
    conversation_id |-> conversationId,
    provider_type |-> pl.providerType,
    message_type |-> pl.messageType,
    provider_message_id |-> pl.providerMessageId,
    direction |-> pl.direction,
    from |-> pl.from,
    to |-> pl.to,
    body |-> pl.body,
    attachments |-> SerializeAttachments(pl.attachments),
    status |-> InitialStatus(pl.direction),
    timestamp |-> pl.timestamp,
    retry_count |-> 0,
    error_message |-> Null ]

\* The row ConversationRepository.create inserts; created_at, updated_at and
\* last_message_at default to now(), the instant of the insert
ConversationRow(id, participantsKey, now) ==
  [ id |-> id, participants |-> participantsKey, last_message_at |-> now ]

\* No conversation in a response
NoConversation == [id |-> 0]

\* No call that lists, reads or deletes has answered since the last sendMessage
NoResponse ==
  [ op |-> "none", id |-> 0, limit |-> 0, offset |-> 0,
    kind |-> "none", item |-> NoConversation, rows |-> <<>>, total |-> 0 ]

\* AppError.notFound(`Conversation ${id} not found`): code NOT_FOUND, status 404
NotFound(op, id) ==
  [ op |-> op, id |-> id, limit |-> 0, offset |-> 0,
    kind |-> "notFound", item |-> NoConversation, rows |-> <<>>, total |-> 0 ]

\* toConversationResponse(row)
toConversationResponse(row) ==
  [ id |-> row.id,
    participants |-> row.participants,
    lastMessageAt |-> row.last_message_at ]

\* Array.prototype.map
MapSeq(seq, f(_)) == [i \in 1..Len(seq) |-> f(seq[i])]

(***************************************************************************)
(* Queries.  A SELECT with ORDER BY returns the rows in any sequence that  *)
(* the ordering allows: rows that the ordering does not tell apart come in *)
(* any order.                                                              *)
(***************************************************************************)
Ordered(rows, Before(_, _)) ==
  { seq \in [1..Cardinality(rows) -> rows] :
      \A i, j \in 1..Cardinality(rows) :
        i < j => seq[i] /= seq[j] /\ ~Before(seq[j], seq[i]) }

\* LIMIT limit OFFSET offset
LimitOffset(seq, limit, offset) ==
  SubSeq(seq, offset + 1, IF offset + limit < Len(seq) THEN offset + limit ELSE Len(seq))

\* findAll with orderBy('last_message_at', 'desc') alone
ConversationBeforeNoTieBreak(c1, c2) == c1.last_message_at > c2.last_message_at

\* findAll: orderBy('last_message_at', 'desc').orderBy('id', 'desc')
ConversationBefore(c1, c2) ==
  \/ c1.last_message_at > c2.last_message_at
  \/ c1.last_message_at = c2.last_message_at /\ c1.id > c2.id

\* Messages in the order of their insertion
MessageBeforeById(m1, m2) == m1.id < m2.id

\* findByConversationId: orderBy('timestamp', 'asc').orderBy('id', 'asc')
MessageBefore(m1, m2) ==
  \/ m1.timestamp < m2.timestamp
  \/ m1.timestamp = m2.timestamp /\ m1.id < m2.id

\* aggregateMessagesForConversation: orderBy('m.timestamp', 'asc')
AggregateBefore(m1, m2) == m1.timestamp < m2.timestamp

MessagesOf(id) == {m \in messages : m.conversation_id = id}

NoContacts == << <<>>, <<>> >>

NoOutput == [fn |-> "none", values |-> <<>>]

(***************************************************************************)
(* sendMessage, one action per step between two awaits.                    *)
(***************************************************************************)
Init ==
  /\ conversations = {}
  /\ messages = {}
  /\ nextConversationId = 1
  /\ nextMessageId = 1
  /\ pc = [r \in Requests |-> "idle"]
  /\ payload = [r \in Requests |-> NoPayload]
  /\ conversation = [r \in Requests |-> 0]
  /\ result = [r \in Requests |-> NoResult]
  /\ response = NoResponse
  /\ contacts = NoContacts
  /\ normalized = NoOutput

\* Validate with the conversation row written before the errors are thrown
ValidatePersistFirst(r, pl) ==
  /\ payload' = [payload EXCEPT ![r] = pl]
  /\ IF Len(ValidationErrors(pl)) > 0
       THEN /\ result' = [result EXCEPT ![r] = ValidationError(ValidationErrors(pl))]
            /\ pc' = [pc EXCEPT ![r] = "done"]
            /\ IF ParticipantsKey(pl) /= <<Invalid>>
                 THEN /\ conversations' = conversations \cup
                           {ConversationRow(nextConversationId, ParticipantsKey(pl),
                                            nextConversationId)}
                      /\ nextConversationId' = nextConversationId + 1
                 ELSE UNCHANGED <<conversations, nextConversationId>>
       ELSE /\ IF ParticipantsKey(pl) = <<Invalid>>
                 THEN /\ result' = [result EXCEPT ![r] = RawError]
                      /\ pc' = [pc EXCEPT ![r] = "done"]
                 ELSE /\ result' = [result EXCEPT ![r] = NoResult]
                      /\ pc' = [pc EXCEPT ![r] = "find"]
            /\ UNCHANGED <<conversations, nextConversationId>>
  /\ response' = NoResponse
  /\ UNCHANGED <<messages, nextMessageId, conversation, normalizerVars>>

\* Entry of sendMessage up to the first await: normalise, validate, throw the
\* aggregated ValidationError; then createParticipantKey, outside the try
\* block, whose Error leaves sendMessage as it is; else go on to findOrCreate
Validate(r, pl) ==
  /\ payload' = [payload EXCEPT ![r] = pl]
  /\ IF Len(ValidationErrors(pl)) > 0
       THEN /\ result' = [result EXCEPT ![r] = ValidationError(ValidationErrors(pl))]
            /\ pc' = [pc EXCEPT ![r] = "done"]
       ELSE IF ParticipantsKey(pl) = <<Invalid>>
       THEN /\ result' = [result EXCEPT ![r] = RawError]
            /\ pc' = [pc EXCEPT ![r] = "done"]
       ELSE /\ result' = [result EXCEPT ![r] = NoResult]
            /\ pc' = [pc EXCEPT ![r] = "find"]
  /\ response' = NoResponse
  /\ UNCHANGED <<conversations, messages, nextConversationId, nextMessageId,
                 conversation, normalizerVars>>

SendMessage(r, pl) ==
  /\ pc[r] = "idle"
  /\ \A q \in Requests : q < r => pc[q] /= "idle"
  /\ Validate(r, pl)

\* findOrCreate, first await: findByParticipants (executeTakeFirst returns any
\* one matching row)
FindByParticipants(r) ==
  /\ pc[r] = "find"
  /\ LET found == {c \in conversations : c.participants = ParticipantsKey(payload[r])} IN
     IF found /= {}
       THEN \E c \in found :
              /\ conversation' = [conversation EXCEPT ![r] = c.id]
              /\ pc' = [pc EXCEPT ![r] = "insert"]
       ELSE /\ pc' = [pc EXCEPT ![r] = "create"]
            /\ UNCHANGED conversation
  /\ UNCHANGED <<conversations, messages, nextConversationId, nextMessageId,
                 payload, result, response, normalizerVars>>

\* create on a conversations table with a unique constraint on participants:
\* the insert of a second row with the key fails and sendMessage wraps the failure
CreateConversationUnique(r, now) ==
  /\ pc[r] = "create"
  /\ IF \E c \in conversations : c.participants = ParticipantsKey(payload[r])
       THEN /\ result' = [result EXCEPT ![r] = InternalError]
            /\ pc' = [pc EXCEPT ![r] = "done"]
            /\ UNCHANGED <<conversations, nextConversationId, conversation>>
       ELSE /\ conversations' = conversations \cup
                 {ConversationRow(nextConversationId, ParticipantsKey(payload[r]), now)}
            /\ nextConversationId' = nextConversationId + 1
            /\ conversation' = [conversation EXCEPT ![r] = nextConversationId]
            /\ pc' = [pc EXCEPT ![r] = "insert"]
            /\ UNCHANGED result
  /\ UNCHANGED <<messages, nextMessageId, payload, response, normalizerVars>>

\* findOrCreate, second await: ConversationRepository.create at the instant now
CreateConversation(r, now) ==
  /\ pc[r] = "create"
  /\ conversations' = conversations \cup
        {ConversationRow(nextConversationId, ParticipantsKey(payload[r]), now)}
  /\ nextConversationId' = nextConversationId + 1
  /\ conversation' = [conversation EXCEPT ![r] = nextConversationId]
  /\ pc' = [pc EXCEPT ![r] = "insert"]
  /\ UNCHANGED <<messages, nextMessageId, payload, result, response, normalizerVars>>

\* InsertMessage inside one transaction with findOrCreate: a failed insert
\* also undoes the conversation row the call had created
InsertMessageRollback(r) ==
  /\ pc[r] = "insert"
  /\ IF \/ ViolatesForeignKey(conversation[r])
        \/ ViolatesUniqueProviderId(payload[r].providerType, payload[r].providerMessageId)
       THEN /\ result' = [result EXCEPT ![r] = InternalError]
            /\ conversations' =
                 {c \in conversations : c.id /= conversation[r] \/ MessagesOf(c.id) /= {}}
            /\ UNCHANGED <<messages, nextMessageId>>
       ELSE /\ messages' = messages \cup
                 {MessageRow(nextMessageId, conversation[r], payload[r])}
            /\ nextMessageId' = nextMessageId + 1
            /\ result' = [result EXCEPT ![r] =
                 Ok(MessageRow(nextMessageId, conversation[r], payload[r]))]
            /\ UNCHANGED conversations
  /\ pc' = [pc EXCEPT ![r] = "done"]
  /\ UNCHANGED <<nextConversationId, payload, conversation, response, normalizerVars>>

\* MessageRepository.create and the return or catch that follows it
InsertMessage(r) ==
  /\ pc[r] = "insert"
  /\ IF \/ ViolatesForeignKey(conversation[r])
        \/ ViolatesUniqueProviderId(payload[r].providerType, payload[r].providerMessageId)
       THEN /\ result' = [result EXCEPT ![r] = InternalError]
            /\ UNCHANGED <<messages, nextMessageId>>
       ELSE /\ messages' = messages \cup
                 {MessageRow(nextMessageId, conversation[r], payload[r])}
            /\ nextMessageId' = nextMessageId + 1
            /\ result' = [result EXCEPT ![r] =
                 Ok(MessageRow(nextMessageId, conversation[r], payload[r]))]
  /\ pc' = [pc EXCEPT ![r] = "done"]
  /\ UNCHANGED <<conversations, nextConversationId, payload, conversation,
                 response, normalizerVars>>

\* deleteConversation that leaves the messages of the conversation in place
DeleteConversationNoCascade(id) ==
  /\ IF id \in ConversationIds
       THEN /\ conversations' = {c \in conversations : c.id /= id}
            /\ response' = [NoResponse EXCEPT !.op = "deleteConversation", !.id = id,
                                              !.kind = "ok"]
       ELSE /\ response' = NotFound("deleteConversation", id)
            /\ UNCHANGED conversations
  /\ UNCHANGED <<messages, nextConversationId, nextMessageId, pc, payload, conversation,
                 result, normalizerVars>>

\* deleteConversation that does not look at the number of deleted rows
DeleteConversationAlwaysOk(id) ==
  /\ conversations' = {c \in conversations : c.id /= id}
  /\ messages' = {m \in messages : m.conversation_id /= id}
  /\ response' = [NoResponse EXCEPT !.op = "deleteConversation", !.id = id, !.kind = "ok"]
  /\ UNCHANGED <<nextConversationId, nextMessageId, pc, payload, conversation, result,
                 normalizerVars>>

\* ConversationService.deleteConversation: one DELETE, the foreign key cascades
\* to the messages; NotFound when no row was deleted
DeleteConversation(id) ==
  /\ IF id \in ConversationIds
       THEN /\ conversations' = {c \in conversations : c.id /= id}
            /\ messages' = {m \in messages : m.conversation_id /= id}
            /\ response' = [NoResponse EXCEPT !.op = "deleteConversation", !.id = id,
                                              !.kind = "ok"]
       ELSE /\ response' = NotFound("deleteConversation", id)
            /\ UNCHANGED <<conversations, messages>>
  /\ UNCHANGED <<nextConversationId, nextMessageId, pc, payload, conversation, result,
                 normalizerVars>>

readVars ==
  << conversations, messages, nextConversationId, nextMessageId,
     pc, payload, conversation, result, normalizerVars >>

\* ConversationService.listConversations: findAll and count
ListConversations(limit, offset) ==
  /\ \E seq \in Ordered(conversations, ConversationBefore) :
       response' =
         [ NoResponse EXCEPT
             !.op = "listConversations", !.limit = limit, !.offset = offset,
             !.kind = "ok",
             !.rows = MapSeq(LimitOffset(seq, limit, offset), toConversationResponse),
             !.total = Cardinality(conversations) ]
  /\ UNCHANGED readVars

\* ConversationService.getConversationMetadata
GetConversationMetadata(id) ==
  /\ IF id \in ConversationIds
       THEN \E c \in conversations :
              /\ c.id = id
              /\ response' =
                   [ NoResponse EXCEPT
                       !.op = "getConversationMetadata", !.id = id, !.kind = "ok",
                       !.item = toConversationResponse(c) ]
       ELSE response' = NotFound("getConversationMetadata", id)
  /\ UNCHANGED readVars

\* ConversationService.getConversationWithMessages: findByIdWithMessages
GetConversationWithMessages(id, messageLimit) ==
  /\ IF id \in ConversationIds
       THEN \E c \in conversations, seq \in Ordered(MessagesOf(id), AggregateBefore) :
              /\ c.id = id
              /\ response' =
                   [ NoResponse EXCEPT
                       !.op = "getConversationWithMessages", !.id = id,
                       !.limit = messageLimit, !.kind = "ok",
                       !.item = toConversationResponse(c),
                       !.rows = MapSeq(LimitOffset(seq, messageLimit, 0), toMessageResponse) ]
       ELSE response' = NotFound("getConversationWithMessages", id)
  /\ UNCHANGED readVars

\* MessageService.getMessagesByConversationId: findByConversationId
GetMessagesByConversationId(conversationId, limit) ==
  /\ \E seq \in Ordered(MessagesOf(conversationId), MessageBefore) :
       response' =
         [ NoResponse EXCEPT
             !.op = "getMessagesByConversationId", !.id = conversationId,
             !.limit = limit, !.kind = "ok",
             !.rows = LimitOffset(seq, limit, 0) ]
  /\ UNCHANGED readVars

(***************************************************************************)
(* Payloads the callers send.                                              *)
(***************************************************************************)
PayloadsOver(contactsFrom, contactsTo, shapes, bodies, atts, times) ==
  { [ providerType |-> s[1],
      providerMessageId |-> s[4],
      messageType |-> s[2],
      direction |-> s[3],
      from |-> f,
      to |-> g,
      body |-> b,
      attachments |-> a,
      timestamp |-> ts ] :
    s \in shapes, f \in contactsFrom, g \in contactsTo,
    b \in bodies, a \in atts, ts \in times }

AllContacts ==
  { PhoneA, PhoneAFormatted, PhoneB, PhoneBPlain, PhoneShort, NotAPhone,
    EmailGmailAlias, EmailGmailDots, EmailBob, EmailBobUpper, EmailPlusOnly,
    EmailNoDomain }

\* Every combination of the fields, for the validation step alone
AllPayloads ==
  PayloadsOver(AllContacts, AllContacts,
               ProviderTypes \X MessageTypes \X MessageDirections \X {Null, "prov-1"},
               {BodyHi, BodyEmpty, BodyBlank},
               {NullAttachments, NoAttachments, OneAttachment}, {1})

\* Concurrent webhook deliveries: one pair of phones written in two ways and
\* in both directions, with and without a provider id, and a phone writing
\* to itself
Payloads ==
  PayloadsOver({PhoneA}, {PhoneBPlain}, {<<"sms", "sms", "inbound", "prov-1">>},
               {BodyHi}, {NullAttachments}, {1})
  \cup PayloadsOver({PhoneB}, {PhoneAFormatted}, {<<"sms", "sms", "inbound", Null>>},
                    {BodyHi}, {NullAttachments}, {1})
  \cup PayloadsOver({PhoneA}, {PhoneAFormatted}, {<<"sms", "sms", "inbound", Null>>},
                    {BodyHi}, {NullAttachments}, {1})

\* Calls made one after another, as a send or as a webhook carrying a
\* provider id: a phone to itself, to a second phone and to an email address,
\* the second phone back to the first, and a sender that is no contact
PayloadsSequential ==
  PayloadsOver({PhoneAFormatted}, {PhoneA, PhoneBPlain, EmailGmailAlias},
               {<<"sms", "sms", "outbound", Null>>, <<"sms", "sms", "inbound", "prov-1">>},
               {BodyHi}, {NullAttachments}, {1})
  \cup PayloadsOver({PhoneB}, {PhoneA},
                    {<<"sms", "sms", "outbound", Null>>, <<"sms", "sms", "inbound", "prov-1">>},
                    {BodyHi}, {NullAttachments}, {1})
  \cup PayloadsOver({NotAPhone}, {PhoneA}, {<<"sms", "sms", "outbound", Null>>},
                    {BodyHi}, {NullAttachments}, {1})

NoneInFlight == \A q \in Requests : pc[q] \in {"idle", "done"}

Next ==
  \/ \E r \in Requests, pl \in Payloads : SendMessage(r, pl)
  \/ \E r \in Requests : FindByParticipants(r)
  \/ \E r \in Requests : CreateConversation(r, nextConversationId)
  \/ \E r \in Requests : InsertMessage(r)
  \/ \E id \in ConversationIds : DeleteConversation(id)

Spec == Init /\ [][Next]_vars

NextSequential ==
  \/ \E r \in Requests, pl \in PayloadsSequential : NoneInFlight /\ SendMessage(r, pl)
  \/ \E r \in Requests : FindByParticipants(r)
  \/ \E r \in Requests : CreateConversation(r, nextConversationId)
  \/ \E r \in Requests : InsertMessage(r)
  \/ \E id \in ConversationIds : DeleteConversation(id)

SpecSequential == Init /\ [][NextSequential]_vars

\* The validation step applied to every payload
NextValidation == \E r \in {1} : pc[r] = "idle" /\ \E pl \in AllPayloads : SendMessage(r, pl)

SpecValidation == Init /\ [][NextValidation]_vars

(***************************************************************************)
(* Calls made one after another that send, list, read and delete.          *)
(***************************************************************************)
\* limit and offset a caller of listConversations asks for
Limits == {1, 2}

Offsets == {0, 1, 2}

\* limit = 100, the default of getMessagesByConversationId
DefaultLimit == 100

\* Ids a caller asks for: those of the conversations the calls can create
ConversationIdDomain == 1..MaxCalls

\* Messages between two phones with an earlier and a later timestamp, between
\* the two addresses whose local parts are the digits of these phones, and
\* between two other addresses
PayloadsConversations ==
  PayloadsOver({PhoneAFormatted}, {PhoneBPlain}, {<<"sms", "sms", "outbound", Null>>},
               {BodyHi}, {NullAttachments}, {1, 2})
  \cup PayloadsOver({EmailDigitsA}, {EmailDigitsB}, {<<"email", "email", "outbound", Null>>},
                    {BodyHi}, {NullAttachments}, {1})
  \cup PayloadsOver({EmailBob}, {EmailTagged}, {<<"email", "email", "outbound", Null>>},
                    {BodyHi}, {NullAttachments}, {1})

\* now() of an insert: the instant of the latest stored conversation or a later one
ClockReadings ==
  IF conversations = {} THEN {1}
  ELSE LET latest == CHOOSE t \in {c.last_message_at : c \in conversations} :
                       \A c \in conversations : c.last_message_at <= t
       IN {latest, latest + 1}

\* A caller reads after a sendMessage or a delete, or repeats the kind of read
\* that was answered last, while no sendMessage is under way
ReadsNext(op) ==
  /\ NoneInFlight
  /\ response.op \in {"none", "deleteConversation", op}

NextConversations ==
  \/ \E r \in Requests, pl \in PayloadsConversations : NoneInFlight /\ SendMessage(r, pl)
  \/ \E r \in Requests : FindByParticipants(r)
  \/ \E r \in Requests, now \in ClockReadings : CreateConversation(r, now)
  \/ \E r \in Requests : InsertMessage(r)
  \/ \E id \in ConversationIdDomain : NoneInFlight /\ DeleteConversation(id)
  \/ \E limit \in Limits, offset \in Offsets :
       ReadsNext("listConversations") /\ ListConversations(limit, offset)
  \/ \E id \in ConversationIdDomain :
       ReadsNext("getConversationMetadata") /\ GetConversationMetadata(id)
  \/ \E id \in ConversationIdDomain, messageLimit \in Limits :
       ReadsNext("getConversationWithMessages")
         /\ GetConversationWithMessages(id, messageLimit)
  \/ \E id \in ConversationIdDomain, limit \in {2, DefaultLimit} :
       ReadsNext("getMessagesByConversationId")
         /\ GetMessagesByConversationId(id, limit)

SpecConversations == Init /\ [][NextConversations]_vars

(***************************************************************************)
(* The functions of utils/normalizer applied to a pair of contact strings. *)
(***************************************************************************)
NormalizerContacts ==
  AllContacts \cup
    {EmailGmailSecondAlias, EmailGmailUpper, EmailTagged, EmailDigitsA, EmailDigitsB}

serviceVars ==
  << conversations, messages, nextConversationId, nextMessageId,
     pc, payload, conversation, result, response >>

InitNormalizer ==
  /\ conversations = {}
  /\ messages = {}
  /\ nextConversationId = 1
  /\ nextMessageId = 1
  /\ pc = [r \in Requests |-> "idle"]
  /\ payload = [r \in Requests |-> NoPayload]
  /\ conversation = [r \in Requests |-> 0]
  /\ result = [r \in Requests |-> NoResult]
  /\ response = NoResponse
  /\ contacts \in NormalizerContacts \X NormalizerContacts
  /\ normalized = NoOutput

\* normalizeContact on a contact and, when it returned, on its own result
NormalizeTwice(contact) ==
  IF normalizeContact(contact) = Invalid THEN Invalid
  ELSE normalizeContact(normalizeContact(contact))

\* normalizeContact(x) for both contacts, then normalizeContact of each result
NormalizeContacts ==
  /\ normalized' =
       [ fn |-> "normalizeContact",
         values |-> << normalizeContact(contacts[1]), normalizeContact(contacts[2]),
                       NormalizeTwice(contacts[1]), NormalizeTwice(contacts[2]) >> ]
  /\ UNCHANGED <<serviceVars, contacts>>

\* normalizeEmail(x) for both contacts
NormalizeEmails ==
  /\ normalized' =
       [ fn |-> "normalizeEmail",
         values |-> << normalizeEmail(contacts[1]), normalizeEmail(contacts[2]) >> ]
  /\ UNCHANGED <<serviceVars, contacts>>

\* createParticipantKey(a, b), createParticipantKey(b, a), and the key
\* sendMessage builds for from a to b
CreateParticipantKeys ==
  /\ normalized' =
       [ fn |-> "createParticipantKey",
         values |-> << createParticipantKey(contacts[1], contacts[2]),
                       createParticipantKey(contacts[2], contacts[1]),
                       ParticipantsKey([from |-> contacts[1], to |-> contacts[2]]) >> ]
  /\ UNCHANGED <<serviceVars, contacts>>

NextNormalizer ==
  \/ NormalizeContacts
  \/ NormalizeEmails
  \/ CreateParticipantKeys

SpecNormalizer == InitNormalizer /\ [][NextNormalizer]_vars

(***************************************************************************)
(* Calls made one after another that send on both provider channels,       *)
(* update the status of a message, read a message and resolve a            *)
(* conversation.                                                           *)
(***************************************************************************)
\* AppError.internal(...) out of a call other than sendMessage
InternalFailure(op, id) == [NoResponse EXCEPT !.op = op, !.id = id, !.kind = "internal"]

\* MessageService.updateMessageStatus: updateStatus sets status and
\* error_message of the row with the id and returns it; with no such row
\* executeTakeFirstOrThrow throws an Error that is no AppError, which the catch
\* block wraps as AppError.internal
UpdateMessageStatus(id, status, errorMessage) ==
  /\ IF \E m \in messages : m.id = id
       THEN \E m \in messages :
              /\ m.id = id
              /\ messages' = (messages \ {m}) \cup
                   {[m EXCEPT !.status = status, !.error_message = errorMessage]}
              /\ response' =
                   [ NoResponse EXCEPT
                       !.op = "updateMessageStatus", !.id = id, !.kind = "ok",
                       !.item = [m EXCEPT !.status = status,
                                          !.error_message = errorMessage] ]
       ELSE /\ response' = InternalFailure("updateMessageStatus", id)
            /\ UNCHANGED messages
  /\ UNCHANGED <<conversations, nextConversationId, nextMessageId, pc, payload,
                 conversation, result, normalizerVars>>

\* MessageService.getMessageById
GetMessageById(id) ==
  /\ IF \E m \in messages : m.id = id
       THEN \E m \in messages :
              /\ m.id = id
              /\ response' =
                   [ NoResponse EXCEPT
                       !.op = "getMessageById", !.id = id, !.kind = "ok", !.item = m ]
       ELSE response' = NotFound("getMessageById", id)
  /\ UNCHANGED readVars

\* The FieldError list findOrCreateConversation has collected when it reaches
\* `errors.length > 0`
ConversationValidationErrors(from, to) ==
  LET normalizedFrom == normalizeContact(from)
      normalizedTo == normalizeContact(to)
  IN ErrorIf(normalizedFrom = Invalid, "from", "INVALID_CONTACT_FORMAT")
     \o ErrorIf(normalizedTo = Invalid, "to", "INVALID_CONTACT_FORMAT")
     \o ErrorIf(normalizedFrom /= Invalid /\ normalizedTo /= Invalid
                  /\ normalizedFrom = normalizedTo,
                "participants", "PARTICIPANTS_IDENTICAL")

\* from and to a caller of findOrCreateConversation passes
ConversationRequests == {EmailBob, EmailTagged} \X {EmailTagged}

\* What findOrCreateConversation computes from its arguments alone, before the
\* first await: the FieldError list and the participantsKey
ConversationChecks ==
  [ req \in ConversationRequests |->
      [ errors |-> ConversationValidationErrors(req[1], req[2]),
        participantsKey |-> ParticipantsKey([from |-> req[1], to |-> req[2]]) ] ]

\* ConversationService.findOrCreateConversation, called while no other call
\* runs: validation, createParticipantKey outside the try block, findOrCreate
FindOrCreateConversation(from, to) ==
  LET errors == ConversationChecks[<<from, to>>].errors
      participantsKey == ConversationChecks[<<from, to>>].participantsKey
      found == {c \in conversations : c.participants = participantsKey}
      op == [NoResponse EXCEPT !.op = "findOrCreateConversation"]
  IN
  /\ IF Len(errors) > 0
       THEN /\ response' = [op EXCEPT !.kind = "validation", !.rows = errors]
            /\ UNCHANGED <<conversations, nextConversationId>>
       ELSE IF participantsKey = <<Invalid>>
       THEN /\ response' = [op EXCEPT !.kind = "error"]
            /\ UNCHANGED <<conversations, nextConversationId>>
       ELSE IF found /= {}
       THEN /\ \E c \in found : response' = [op EXCEPT !.id = c.id, !.kind = "ok", !.item = c]
            /\ UNCHANGED <<conversations, nextConversationId>>
       ELSE /\ conversations' = conversations \cup
                 {ConversationRow(nextConversationId, participantsKey, nextConversationId)}
            /\ nextConversationId' = nextConversationId + 1
            /\ response' =
                 [ op EXCEPT
                     !.id = nextConversationId, !.kind = "ok",
                     !.item = ConversationRow(nextConversationId, participantsKey,
                                              nextConversationId) ]
  /\ UNCHANGED <<messages, nextMessageId, pc, payload, conversation, result,
                 normalizerVars>>

\* Ids a caller asks for: those of the first two messages the calls can store
MessageIdDomain == {1, 2}

\* status and errorMessage a caller of updateMessageStatus passes; an
\* errorMessage left out is stored as null
StatusUpdates == {<<"pending", Null>>, <<"sent", Null>>, <<"failed", "timeout">>}

\* A caller reads a message or resolves a conversation after a sendMessage or
\* an update, or repeats the kind of call that was answered last
CallsNext(op) ==
  /\ NoneInFlight
  /\ response.op \in {"none", "updateMessageStatus", op}

\* Two addresses over the sms endpoint and over the email webhook, a payload
\* of each provider with a message type of the other, and an mms between two
\* phones
PayloadsLifecycle ==
  PayloadsOver({EmailBob}, {EmailTagged},
               {<<"sms", "sms", "outbound", Null>>, <<"email", "email", "inbound", Null>>,
                <<"sms", "email", "outbound", Null>>},
               {BodyHi}, {NullAttachments}, {1})
  \cup PayloadsOver({PhoneA}, {PhoneBPlain},
                    {<<"sms", "mms", "outbound", Null>>, <<"email", "mms", "outbound", Null>>},
                    {BodyHi}, {OneAttachment}, {1})

NextLifecycle ==
  \/ \E r \in Requests, pl \in PayloadsLifecycle : NoneInFlight /\ SendMessage(r, pl)
  \/ \E r \in Requests : FindByParticipants(r)
  \/ \E r \in Requests : CreateConversation(r, nextConversationId)
  \/ \E r \in Requests : InsertMessage(r)
  \/ \E id \in MessageIdDomain, update \in StatusUpdates :
       NoneInFlight /\ UpdateMessageStatus(id, update[1], update[2])
  \/ \E id \in MessageIdDomain : CallsNext("getMessageById") /\ GetMessageById(id)
  \/ \E req \in ConversationRequests :
       CallsNext("findOrCreateConversation") /\ FindOrCreateConversation(req[1], req[2])

SpecLifecycle == Init /\ [][NextLifecycle]_vars

(***************************************************************************)
(* Vocabulary of the properties.                                           *)
(***************************************************************************)
Done(r) == pc[r] = "done"

\* The call returned a message
Accepted(r) == Done(r) /\ result[r].kind = "ok"

\* The call returned a message and that message is still stored
Stored(r) == Accepted(r) /\ \E m \in messages : m.id = result[r].message.id

\* The unordered pair of canonical contacts of a from/to
PairOf(from, to) == {normalizeContact(from), normalizeContact(to)}

SamePair(pl1, pl2) == PairOf(pl1.from, pl1.to) = PairOf(pl2.from, pl2.to)

\* Both contacts are valid and are the same contact
SelfAddressed(from, to) ==
  /\ normalizeContact(from) /= Invalid
  /\ normalizeContact(to) /= Invalid
  /\ normalizeContact(from) = normalizeContact(to)

HasFieldError(r, field, code) ==
  \E i \in 1..Len(result[r].fields) :
    result[r].fields[i] = [field |-> field, code |-> code]

HasFieldErrorOn(r, field) ==
  \E i \in 1..Len(result[r].fields) : result[r].fields[i].field = field

(***************************************************************************)
(* C1: in every reachable state there is at most one conversation row per  *)
(* participants key, and all messages whose from/to normalise to the same  *)
(* unordered pair are attached to one single conversation, under any       *)
(* interleaving of the sendMessage calls.                                  *)
(***************************************************************************)
C1_OneConversationPerPair ==
  /\ \A c1, c2 \in conversations :
       c1.participants = c2.participants => c1.id = c2.id
  /\ \A m1, m2 \in messages :
       PairOf(m1.from, m1.to) = PairOf(m2.from, m2.to)
         => m1.conversation_id = m2.conversation_id

(***************************************************************************)
(* C2: when the calls run one after another, two accepted calls whose      *)
(* messages are both still stored (no deletion in between) returned the    *)
(* same conversationId exactly when their from/to normalise to the same    *)
(* unordered pair, and no second conversation row exists for a pair.       *)
(***************************************************************************)
C2_SequentialCallsShareConversation ==
  /\ \A r1, r2 \in Requests :
       Stored(r1) /\ Stored(r2) =>
         ( SamePair(payload[r1], payload[r2])
             <=> result[r1].message.conversationId = result[r2].message.conversationId )
  /\ \A c1, c2 \in conversations :
       {c1.participants[1], c1.participants[2]} = {c2.participants[1], c2.participants[2]}
         => c1.id = c2.id

\* A pair written in two ways and swapped shares a conversation; another pair has its own
C2_Witness ==
  \E r1, r2, r3 \in Requests :
    /\ Stored(r1) /\ Stored(r2) /\ Stored(r3)
    /\ payload[r1].from /= payload[r2].from
    /\ payload[r1].from /= payload[r2].to
    /\ SamePair(payload[r1], payload[r2])
    /\ ~SamePair(payload[r1], payload[r3])
    /\ result[r1].message.conversationId = result[r2].message.conversationId
    /\ result[r1].message.conversationId /= result[r3].message.conversationId

(***************************************************************************)
(* C3: of two inbound calls carrying the same non-null (providerType,      *)
(* providerMessageId), the second also succeeds and returns the message id *)
(* of the first, and exactly one message with that pair is stored.         *)
(***************************************************************************)
C3_DuplicateWebhookReturnsSameMessage ==
  \A r1, r2 \in Requests :
    ( /\ r1 < r2
      /\ Stored(r1)
      /\ Done(r2)
      /\ result[r2].kind /= "validation"
      /\ payload[r1].direction = "inbound"
      /\ payload[r2].direction = "inbound"
      /\ payload[r1].providerMessageId /= Null
      /\ payload[r1].providerType = payload[r2].providerType
      /\ payload[r1].providerMessageId = payload[r2].providerMessageId )
    => /\ Accepted(r2)
       /\ result[r2].message.id = result[r1].message.id
       /\ Cardinality({m \in messages :
                         /\ m.provider_type = payload[r1].providerType
                         /\ m.provider_message_id = payload[r1].providerMessageId}) = 1

(***************************************************************************)
(* C4: in every reachable state, under any interleaving, no two stored     *)
(* messages share a non-null (providerType, providerMessageId); messages   *)
(* with a null providerMessageId are not constrained.                      *)
(***************************************************************************)
C4_ProviderIdUnique ==
  \A m1, m2 \in messages :
    ( /\ m1.provider_message_id /= Null
      /\ m1.provider_type = m2.provider_type
      /\ m1.provider_message_id = m2.provider_message_id )
    => m1 = m2

\* A retried webhook was refused while its first delivery is stored, next to
\* a stored message that has no provider id
C4_Witness ==
  \E r1, r2 \in Requests :
    /\ Stored(r1) /\ Done(r2) /\ result[r2].kind = "internal"
    /\ payload[r1].providerMessageId /= Null
    /\ payload[r1].providerType = payload[r2].providerType
    /\ payload[r1].providerMessageId = payload[r2].providerMessageId
    /\ conversation[r2] \in ConversationIds
    /\ \E m \in messages : m.provider_message_id = Null

OtherFieldsValid(pl) ==
  /\ normalizeContact(pl.from) /= Invalid
  /\ normalizeContact(pl.to) /= Invalid
  /\ normalizeContact(normalizeContact(pl.from)) /= Invalid
  /\ normalizeContact(normalizeContact(pl.to)) /= Invalid
  /\ normalizeContact(pl.from) /= normalizeContact(pl.to)
  /\ pl.providerType = "sms"

C6_MmsBodyAndAttachments ==
  \A r \in Requests :
    pc[r] /= "idle" =>
      /\ ( /\ payload[r].messageType = "mms"
           /\ payload[r].attachments \in {NullAttachments, NoAttachments} )
         => result[r].kind = "validation"
      /\ ( /\ payload[r].messageType = "mms"
           /\ payload[r].body = BodyEmpty
           /\ payload[r].attachments = OneAttachment
           /\ OtherFieldsValid(payload[r]) )
         => result[r].kind /= "validation"
      /\ ( /\ payload[r].messageType \in {"sms", "email"}
           /\ payload[r].body \in {BodyEmpty, BodyBlank} )
         => result[r].kind = "validation"

(***************************************************************************)
(* C7: validation aggregates: the ValidationError holds one field error    *)
(* for each check that failed, a call whose from and to are both invalid   *)
(* gets at least two field errors, on from and on to, and a failure of the *)
(* normaliser never leaves sendMessage as an Error that is not a           *)
(* ValidationError.                                                        *)
(***************************************************************************)
FailedChecks(pl) ==
  { check \in {"from", "to", "participants", "body", "attachments", "messageType"} :
      \/ check = "from" /\ normalizeContact(pl.from) = Invalid
      \/ check = "to" /\ normalizeContact(pl.to) = Invalid
      \/ check = "participants" /\ SelfAddressed(pl.from, pl.to)
      \/ check = "body" /\ Trim(pl.body) = <<>>
      \/ check = "attachments" /\ pl.messageType = "mms"
           /\ pl.attachments \in {NullAttachments, NoAttachments}
      \/ check = "messageType"
           /\ \/ pl.providerType = "sms" /\ pl.messageType = "email"
              \/ pl.providerType = "email" /\ pl.messageType /= "email" }

FieldErrorsMatchFailedChecks(r) ==
  /\ \A check \in {"from", "to", "participants", "body", "attachments", "messageType"} :
       HasFieldErrorOn(r, check) <=> check \in FailedChecks(payload[r])
  /\ Len(result[r].fields) = Cardinality(FailedChecks(payload[r]))
  /\ (result[r].kind = "validation") <=> (FailedChecks(payload[r]) /= {})
  /\ {"from", "to"} \subseteq FailedChecks(payload[r]) => Len(result[r].fields) >= 2

C7_ValidationAggregates ==
  \A r \in Requests :
    pc[r] /= "idle" =>
      /\ FieldErrorsMatchFailedChecks(r)
      /\ result[r].kind /= "error"

(***************************************************************************)
(* C8: a call that fails validation leaves storage unchanged: the          *)
(* conversations and the messages after the call are those before it.      *)
(***************************************************************************)
C8_ValidationFailureStoresNothing ==
  [][ \A r \in Requests :
        (pc[r] = "idle" /\ pc'[r] = "done" /\ result'[r].kind = "validation")
          => /\ conversations' = conversations
             /\ messages' = messages ]_vars

\* A call failed validation while a conversation and a message are stored
C8_Witness ==
  \E r \in Requests :
    /\ Done(r)
    /\ result[r].kind = "validation"
    /\ conversations /= {}
    /\ messages /= {}

(***************************************************************************)
(* C9: the message a call persists has status pending if outbound and      *)
(* delivered if inbound, retryCount 0 and errorMessage null, and the       *)
(* response reports that status and the direction of the call.             *)
(***************************************************************************)
C9_InitialStatus ==
  [][ \A r \in Requests :
        (pc[r] = "insert" /\ pc'[r] = "done" /\ result'[r].kind = "ok")
          => \E m \in messages' \ messages :
               /\ m.id = result'[r].message.id
               /\ m.direction = payload[r].direction
               /\ payload[r].direction = "outbound" => m.status = "pending"
               /\ payload[r].direction = "inbound" => m.status = "delivered"
               /\ m.retry_count = 0
               /\ m.error_message = Null
               /\ result'[r].message.status = m.status
               /\ result'[r].message.direction = m.direction ]_vars

\* An outbound call answered pending and an inbound call answered delivered
C9_Witness ==
  \E r1, r2 \in Requests :
    /\ Stored(r1) /\ Stored(r2)
    /\ payload[r1].direction = "outbound" /\ result[r1].message.status = "pending"
    /\ payload[r2].direction = "inbound" /\ result[r2].message.status = "delivered"

(***************************************************************************)
(* C10: the from and to of the message stored and returned by an accepted  *)
(* call are the normalised forms of the supplied contacts.                 *)
(***************************************************************************)
C10_StoredContactsNormalized ==
  /\ \A r \in Requests :
       Accepted(r) =>
         /\ result[r].message.from = normalizeContact(payload[r].from)
         /\ result[r].message.to = normalizeContact(payload[r].to)
  /\ \A m \in messages :
       /\ m.from = normalizeContact(m.from)
       /\ m.to = normalizeContact(m.to)

(***************************************************************************)
(* Vocabulary of the normaliser properties.                                *)
(***************************************************************************)
\* a comes strictly before b in the order of the character codes: a is a
\* proper prefix of b, or the first position where they differ has the
\* smaller code in a
LexBefore(a, b) ==
  \E i \in 1..Len(b) :
    /\ \A j \in 1..(i - 1) : j <= Len(a) /\ a[j] = b[j]
    /\ \/ i = Len(a) + 1
       \/ i <= Len(a) /\ Code(a[i]) < Code(b[i])

BothValid ==
  /\ normalizeContact(contacts[1]) /= Invalid
  /\ normalizeContact(contacts[2]) /= Invalid

\* The text before and the text after the first '@'
LocalOf(s) == SubSeq(s, 1, IndexOf(s, "@") - 1)

DomainOf(s) == SubSeq(s, IndexOf(s, "@") + 1, Len(s))

\* The local part cut before its first '+', then freed of its dots
DeAliased(local) ==
  LET cut == IF Includes(local, "+") THEN SubSeq(local, 1, IndexOf(local, "+") - 1)
             ELSE local
  IN SelectSeq(cut, NotDot)

AlAtGmail == <<"a", "l", "@", "g", "m", "a", "i", "l", ".", "c", "o", "m">>

(***************************************************************************)
(* C11: for two contacts that both normalise, createParticipantKey(a, b)   *)
(* equals createParticipantKey(b, a), and the key is the pair of the two   *)
(* normalised contacts in ascending lexicographic order.                   *)
(***************************************************************************)
C11_KeyOrderIndependent ==
  (normalized.fn = "createParticipantKey" /\ BothValid) =>
    LET key == normalized.values[1] IN
    /\ key = normalized.values[2]
    /\ Len(key) = 2
    /\ {key[1], key[2]} = {normalizeContact(contacts[1]), normalizeContact(contacts[2])}
    /\ key[1] = key[2] \/ LexBefore(key[1], key[2])

\* The key of two different contacts handed over in descending order
C11_Witness ==
  /\ normalized.fn = "createParticipantKey"
  /\ BothValid
  /\ LexBefore(normalizeContact(contacts[2]), normalizeContact(contacts[1]))
  /\ normalized.values[1] =
       <<normalizeContact(contacts[2]), normalizeContact(contacts[1])>>

(***************************************************************************)
(* C12: for every contact that normalises, normalising the result again    *)
(* succeeds and gives the same string, and the key sendMessage builds from *)
(* the normalised from and to is the sorted pair of the first              *)
(* normalisation.                                                          *)
(***************************************************************************)
C12_NormalizeIdempotent ==
  /\ normalized.fn = "normalizeContact" =>
       \A i \in 1..2 :
         normalized.values[i] /= Invalid => normalized.values[i + 2] = normalized.values[i]
  /\ (normalized.fn = "createParticipantKey" /\ BothValid) =>
       normalized.values[3] = normalized.values[1]

PhoneToPhone(m) == ~Includes(m.from, "@") /\ ~Includes(m.to, "@")

EmailToEmail(m) == Includes(m.from, "@") /\ Includes(m.to, "@")

\* d is listed before c: later lastMessageAt first, then greater id first
ListedBefore(d, c) ==
  \/ d.last_message_at > c.last_message_at
  \/ d.last_message_at = c.last_message_at /\ d.id > c.id

\* Number of stored conversations listed before c
RankOf(c) == Cardinality({d \in conversations : ListedBefore(d, c)})

\* n comes before m in a history: earlier timestamp first, then smaller id first
ChronologicallyBefore(n, m) ==
  \/ n.timestamp < m.timestamp
  \/ n.timestamp = m.timestamp /\ n.id < m.id

\* Number of messages of m's conversation that come before m
MessageRank(m) ==
  Cardinality({n \in messages :
                 n.conversation_id = m.conversation_id /\ ChronologicallyBefore(n, m)})

\* Number of elements of a page of limit rows starting at offset out of count rows
PageLength(count, limit, offset) ==
  IF count <= offset THEN 0
  ELSE IF count - offset < limit THEN count - offset ELSE limit

\* The greatest timestamp among the stored messages of a conversation that has some
NewestTimestamp(id) ==
  CHOOSE t \in {m.timestamp : m \in MessagesOf(id)} :
    \A m \in MessagesOf(id) : m.timestamp <= t

RowIds(rows) == {rows[k].id : k \in 1..Len(rows)}

(***************************************************************************)
(* C14: a stored message between two phone numbers and a stored message    *)
(* between two email addresses are never in the same conversation, even    *)
(* when the local parts of the addresses are the digits of the phones.     *)
(***************************************************************************)
C14_PhoneAndEmailConversationsDiffer ==
  /\ \A m1, m2 \in messages :
       PhoneToPhone(m1) /\ EmailToEmail(m2) => m1.conversation_id /= m2.conversation_id
  /\ \A m \in messages, c \in conversations :
       c.id = m.conversation_id =>
         /\ PhoneToPhone(m) =>
              \A i \in 1..Len(c.participants) : ~Includes(c.participants[i], "@")
         /\ EmailToEmail(m) =>
              \A i \in 1..Len(c.participants) : Includes(c.participants[i], "@")

\* Both kinds are stored, the addresses carrying the digits of the phones
C14_Witness ==
  \E m1, m2 \in messages :
    /\ PhoneToPhone(m1)
    /\ m2.from = EmailDigitsA
    /\ m2.to = EmailDigitsB
    /\ DigitsOf(LocalOf(m2.from)) = DigitsOf(m1.from)

(***************************************************************************)
(* C15: a deleteConversation(id) that succeeds removes the conversation id *)
(* and every message of it and nothing else, and a getConversationMetadata *)
(* for the same id that follows it fails with NotFound.                    *)
(***************************************************************************)
C15_DeleteCascades ==
  [][ /\ (response'.op = "deleteConversation" /\ response'.kind = "ok") =>
           /\ \A c \in conversations' : c.id /= response'.id
           /\ \A m \in messages' : m.conversation_id /= response'.id
           /\ conversations' \subseteq conversations
           /\ messages' \subseteq messages
           /\ \A c \in conversations : c.id /= response'.id => c \in conversations'
           /\ \A m \in messages : m.conversation_id /= response'.id => m \in messages'
      /\ ( /\ response.op = "deleteConversation"
           /\ response.kind = "ok"
           /\ response'.op = "getConversationMetadata"
           /\ response'.id = response.id ) => response'.kind = "notFound"
    ]_vars

\* The metadata of a conversation that was deleted with its messages is not
\* found, while other conversations and messages are still stored
C15_Witness ==
  /\ response = NotFound("getConversationMetadata", response.id)
  /\ response.id < nextConversationId
  /\ nextMessageId - 1 > Cardinality(messages)
  /\ conversations /= {}
  /\ messages /= {}

(***************************************************************************)
(* C16: getConversationMetadata, getConversationWithMessages and           *)
(* deleteConversation fail with NotFound exactly when no stored            *)
(* conversation has the id, and then change no row; a second delete of the *)
(* conversation just deleted fails with NotFound.                          *)
(***************************************************************************)
C16_NotFoundForUnknownId ==
  [][ /\ ( /\ response' /= response
           /\ response'.op \in {"getConversationMetadata", "getConversationWithMessages",
                                 "deleteConversation"} ) =>
           /\ response'.kind \in {"ok", "notFound"}
           /\ response'.kind = "notFound" <=> response'.id \notin ConversationIds
           /\ response'.kind = "notFound" =>
                conversations' = conversations /\ messages' = messages
      /\ ( /\ response.op = "deleteConversation"
           /\ response.kind = "ok"
           /\ response' /= response
           /\ response'.op = "deleteConversation"
           /\ response'.id = response.id ) => response'.kind = "notFound"
    ]_vars

\* A conversation that was created and deleted is deleted once more
C16_Witness ==
  /\ response = NotFound("deleteConversation", response.id)
  /\ response.id < nextConversationId
  /\ conversations /= {}

(***************************************************************************)
(* C17: the answer of listConversations(limit, offset) is the slice        *)
(* [offset, offset + limit) of the stored conversations in the order       *)
(* (lastMessageAt descending, id descending) and its total is their        *)
(* number; a second call with the same limit and offset gives the same     *)
(* answer, and the pages at offsets 0 and limit share no conversation.     *)
(***************************************************************************)
C17_ListIsSliceOfTotalOrder ==
  /\ [] ( response.op = "listConversations" =>
            /\ response.total = Cardinality(conversations)
            /\ Len(response.rows) =
                 PageLength(Cardinality(conversations), response.limit, response.offset)
            /\ \A k \in 1..Len(response.rows) :
                 \E c \in conversations :
                   /\ response.rows[k] = toConversationResponse(c)
                   /\ RankOf(c) = response.offset + k - 1 )
  /\ [][ (response.op = "listConversations" /\ response'.op = "listConversations") =>
           /\ (response'.limit = response.limit /\ response'.offset = response.offset)
                => response' = response
           /\ ( /\ response'.limit = response.limit
                /\ response.offset = 0
                /\ response'.offset = response.limit )
                => RowIds(response.rows) \cap RowIds(response'.rows) = {}
        ]_vars

\* The second page of one conversation out of three, two of which were
\* created at the same instant
C17_Witness ==
  /\ response.op = "listConversations"
  /\ response.limit = 1
  /\ response.offset = 1
  /\ Len(response.rows) = 1
  /\ response.total = 3
  /\ \E c1, c2 \in conversations :
       c1.id /= c2.id /\ c1.last_message_at = c2.last_message_at

(***************************************************************************)
(* C18: in the answer of listConversations, a conversation whose newest    *)
(* message has a later timestamp than the newest message of another comes  *)
(* before that other one.                                                  *)
(***************************************************************************)
C18_ListedByMostRecentMessage ==
  response.op = "listConversations" =>
    \A i, j \in 1..Len(response.rows) :
      ( /\ MessagesOf(response.rows[i].id) /= {}
        /\ MessagesOf(response.rows[j].id) /= {}
        /\ NewestTimestamp(response.rows[i].id) > NewestTimestamp(response.rows[j].id) )
      => i < j

(***************************************************************************)
(* C19: in every reachable state, the lastMessageAt of a conversation that *)
(* has messages is the greatest timestamp among its messages.              *)
(***************************************************************************)
C19_LastMessageAtIsNewest ==
  \A c \in conversations :
    MessagesOf(c.id) /= {} => c.last_message_at = NewestTimestamp(c.id)

(***************************************************************************)
(* C20: the answer of getMessagesByConversationId(conversationId, limit)   *)
(* holds only messages of that conversation, the first limit of them in    *)
(* the order (timestamp ascending, id ascending), whatever the order in    *)
(* which they were stored.                                                 *)
(***************************************************************************)
C20_MessagesChronological ==
  response.op = "getMessagesByConversationId" =>
    /\ Len(response.rows) =
         PageLength(Cardinality(MessagesOf(response.id)), response.limit, 0)
    /\ \A k \in 1..Len(response.rows) :
         /\ response.rows[k] \in MessagesOf(response.id)
         /\ MessageRank(response.rows[k]) = k - 1

\* Two of three messages are returned, the one stored last first
C20_Witness ==
  /\ response.op = "getMessagesByConversationId"
  /\ response.limit = 2
  /\ Cardinality(MessagesOf(response.id)) = 3
  /\ Len(response.rows) = 2
  /\ response.rows[1].id > response.rows[2].id
  /\ response.rows[1].timestamp < response.rows[2].timestamp

(***************************************************************************)
(* C21: the answer of getConversationWithMessages(id, N) for a stored      *)
(* conversation holds the N messages of it with the greatest timestamps    *)
(* (all of them when it has at most N, none when it has none), in          *)
(* ascending order of timestamp.                                           *)
(***************************************************************************)
C21_MostRecentMessages ==
  (response.op = "getConversationWithMessages" /\ response.kind = "ok") =>
    /\ Len(response.rows) =
         PageLength(Cardinality(MessagesOf(response.id)), response.limit, 0)
    /\ \A k \in 1..Len(response.rows) :
         \E m \in MessagesOf(response.id) : response.rows[k] = toMessageResponse(m)
    /\ \A i, j \in 1..Len(response.rows) :
         i < j => response.rows[i].timestamp <= response.rows[j].timestamp
    /\ \A m \in MessagesOf(response.id) :
         m.id \notin RowIds(response.rows) =>
           \A k \in 1..Len(response.rows) : m.timestamp <= response.rows[k].timestamp

(***************************************************************************)
(* Vocabulary of the properties of the provider channel and of the status. *)
(***************************************************************************)
\* The messageType of the payload is not one of its providerType
ProviderMismatch(pl) ==
  \/ pl.providerType = "sms" /\ pl.messageType = "email"
  \/ pl.providerType = "email" /\ pl.messageType \in {"sms", "mms"}

\* Position of a status in the lifecycle pending, sent, delivered, failed
StatusRank(status) ==
  CASE status = "pending" -> 1
    [] status = "sent" -> 2
    [] status = "delivered" -> 3
    [] status = "failed" -> 4

MessageIds == {m.id : m \in messages}

\* x is what normalizeContact returns for x itself
IsNormalized(x) == x /= Invalid /\ normalizeContact(x) = x

(***************************************************************************)
(* C22: every stored message of providerType sms has messageType sms or    *)
(* mms and every stored message of providerType email has messageType      *)
(* email; a call whose payload breaks this ends with the field error       *)
(* messageType / PROVIDER_MESSAGE_TYPE_MISMATCH.                           *)
(***************************************************************************)
C22_MessageTypeMatchesProvider ==
  /\ \A m \in messages :
       /\ m.provider_type = "sms" => m.message_type \in {"sms", "mms"}
       /\ m.provider_type = "email" => m.message_type = "email"
  /\ \A r \in Requests :
       (pc[r] /= "idle" /\ ProviderMismatch(payload[r])) =>
         /\ Done(r)
         /\ result[r].kind = "validation"
         /\ HasFieldError(r, "messageType", "PROVIDER_MESSAGE_TYPE_MISMATCH")

\* A payload of each provider with a message type of the other was rejected,
\* and an mms and an email are stored
C22_Witness ==
  /\ \E r1, r2 \in Requests :
       /\ Done(r1) /\ payload[r1].providerType = "sms" /\ ProviderMismatch(payload[r1])
       /\ Done(r2) /\ payload[r2].providerType = "email" /\ ProviderMismatch(payload[r2])
  /\ \E m \in messages : m.message_type \in {"mms", "email"}

(***************************************************************************)
(* C24: no step moves the status of a stored message back in the lifecycle *)
(* pending, sent, delivered, failed: after updateMessageStatus the status  *)
(* of the message is the one it had or a later one.                        *)
(***************************************************************************)
C24_StatusMovesForward ==
  [][ \A m \in messages, n \in messages' :
        m.id = n.id => StatusRank(m.status) <= StatusRank(n.status) ]_vars

(***************************************************************************)
(* C25: updateMessageStatus and getMessageById called with an id that no   *)
(* stored message has fail with NotFound and change no row.                *)
(***************************************************************************)
C25_UnknownMessageNotFound ==
  [][ ( /\ response' /= response
        /\ response'.op \in {"updateMessageStatus", "getMessageById"}
        /\ response'.id \notin MessageIds ) =>
        /\ response'.kind = "notFound"
        /\ messages' = messages
        /\ conversations' = conversations ]_vars

(***************************************************************************)
(* C29: the participants of every conversation are two distinct normalised *)
(* contacts in ascending order of the character codes, and no step changes *)
(* the id or the participants of a stored conversation.                    *)
(***************************************************************************)
C29_ParticipantsCanonical ==
  /\ [] ( \A c \in conversations :
            /\ Len(c.participants) = 2
            /\ IsNormalized(c.participants[1])
            /\ IsNormalized(c.participants[2])
            /\ LexBefore(c.participants[1], c.participants[2]) )
  /\ [][ \A c \in conversations :
           \E d \in conversations' :
             /\ d.id = c.id
             /\ d.participants = c.participants
             /\ \A e \in conversations' : e.id = c.id => e = d ]_vars

\* A conversation resolved by findOrCreateConversation whose first participant
\* is the to of a stored message, the status of which was updated
C29_Witness ==
  /\ response.op = "findOrCreateConversation"
  /\ response.kind = "ok"
  /\ \E c \in conversations, m \in messages :
       /\ c.id = response.id
       /\ m.conversation_id = c.id
       /\ m.status = "failed"
       /\ c.participants[1] = normalizeContact(m.to)
       /\ c.participants[2] = normalizeContact(m.from)

(***************************************************************************)
(* C30: all stored messages of one conversation have the same              *)
(* providerType.                                                           *)
(***************************************************************************)
C30_OneProviderPerConversation ==
  \A m1, m2 \in messages :
    m1.conversation_id = m2.conversation_id => m1.provider_type = m2.provider_type

(***************************************************************************)
(* C23: a call to sendMessage whose payload passes validation and that     *)
(* does not return a message ends with an AppError, the internal error     *)
(* that wraps the failure of a storage call; it never ends with an Error   *)
(* that is not an AppError.                                                *)
(***************************************************************************)
C23_FailuresAreAppErrors ==
  \A r \in Requests :
    (Done(r) /\ Len(ValidationErrors(payload[r])) = 0 /\ result[r].kind /= "ok") =>
      result[r] = InternalError

(***************************************************************************)
(* C26: find-or-create is not mutually exclusive.  A call whose lookup     *)
(* found no conversation always inserts a conversation row of its own with *)
(* a fresh id, also when another call has inserted a row with the same     *)
(* participants in between, and a second call that found none is not held  *)
(* back by that insert; so two calls for one unseen pair can both create a *)
(* conversation and return different conversationIds.                      *)
(***************************************************************************)
C26_CreateNotExclusive ==
  [][ \A r \in Requests :
        (pc[r] = "create" /\ pc'[r] /= "create") =>
          /\ pc'[r] = "insert"
          /\ conversation'[r] \notin ConversationIds
          /\ \E c \in conversations' :
               /\ c.id = conversation'[r]
               /\ c.participants = ParticipantsKey(payload[r])
               /\ conversations' = conversations \cup {c}
          /\ \A q \in Requests : q /= r /\ pc[q] = "create" => pc'[q] = "create"
    ]_vars

\* Two calls for one pair have both created a conversation and returned
\* different conversationIds, and two rows with the same participants exist
C26_Witness ==
  \E r1, r2 \in Requests :
    /\ r1 /= r2
    /\ Accepted(r1)
    /\ Accepted(r2)
    /\ SamePair(payload[r1], payload[r2])
    /\ result[r1].message.conversationId /= result[r2].message.conversationId
    /\ \E c1, c2 \in conversations :
         /\ c1.id = result[r1].message.conversationId
         /\ c2.id = result[r2].message.conversationId
         /\ c1.participants = c2.participants

(***************************************************************************)
(* C27: in every reachable state the conversation_id of every stored       *)
(* message is the id of a stored conversation, under any interleaving of   *)
(* sendMessage and deleteConversation; a call whose conversation was       *)
(* deleted before its insert ends with the internal error and stores no    *)
(* message.                                                                *)
(***************************************************************************)
C27_MessagesReferToConversations ==
  /\ [] (\A m \in messages : m.conversation_id \in ConversationIds)
  /\ [][ \A r \in Requests :
           (pc[r] = "insert" /\ pc'[r] = "done" /\ conversation[r] \notin ConversationIds) =>
             /\ result'[r] = InternalError
             /\ messages' = messages
             /\ conversations' = conversations ]_vars

\* A call without provider id resolved a conversation that was deleted before
\* its insert
C27_Witness ==
  \E r \in Requests :
    /\ Done(r)
    /\ result[r] = InternalError
    /\ payload[r].providerMessageId = Null
    /\ conversation[r] /= 0
    /\ conversation[r] \notin ConversationIds
    /\ MessagesOf(conversation[r]) = {}

(***************************************************************************)
(* C28: conversation resolution and message insertion are not atomic.  A   *)
(* call whose insert fails ends with the internal error and the step       *)
(* changes no row: no message is stored, and the conversation the call had *)
(* resolved, created by it or not, stays as it was.                        *)
(***************************************************************************)
C28_FailedInsertKeepsConversation ==
  [][ \A r \in Requests :
        (pc[r] = "insert" /\ pc'[r] = "done" /\ result'[r].kind /= "ok") =>
          /\ result'[r] = InternalError
          /\ messages' = messages
          /\ conversations' = conversations
          /\ nextMessageId' = nextMessageId ]_vars

\* The insert of a call that had created its conversation failed on the
\* provider id of a stored message: the conversation is stored without messages
C28_Witness ==
  \E r \in Requests :
    /\ Done(r)
    /\ result[r] = InternalError
    /\ ViolatesUniqueProviderId(payload[r].providerType, payload[r].providerMessageId)
    /\ conversation[r] \in ConversationIds
    /\ MessagesOf(conversation[r]) = {}

====
